---- MODULE Spec2Model ----
(***************************************************************************)
(* Model of src/app.js: a browser page that tokenizes Japanese text, plots *)
(* the words that have 2-D coordinates and ranks the plotted words by      *)
(* cosine similarity to a selected word.  The file holds four variants of  *)
(* the page:                                                               *)
(*   variant 1  lines   1-223  everything is loaded by init()              *)
(*   variant 2  lines 225-456  everything is loaded lazily, run() catches  *)
(*   variant 3  lines 458-684  as 2, tokenizer build raced with a timer    *)
(*   variant 4  lines 686-922  init() builds the tokenizer, the rest lazy  *)
(* A behaviour of the model is one page session of one variant.  A step is *)
(* what one event-loop task does between two suspensions of a handler (an  *)
(* await that really waits: a fetch, a script load, the tokenizer build).  *)
(*                                                                         *)
(* Strings stand for the program's strings: part-of-speech tags "noun",    *)
(* "verb", "adj" are the tags of isTargetPOS, "" is undefined/empty.       *)
(*                                                                         *)
(* The environment: every fetch delivers, independently of the others, one *)
(* of the files of Vocabs, Buffers, CoordsFiles, or rejects; a script load *)
(* and the tokenizer build succeed or fail.  Plotly.newPlot replaces the   *)
(* plot together with its click listeners, so that only the listener of    *)
(* the latest plot (plotWords) is live.                                    *)
(*                                                                         *)
(* Specifications: Spec is the page with the environment above.            *)
(* FairSpec and DeadlineSpec add what the browser promises about the       *)
(* events a handler waits for.  SimilaritySpec and TokenizeSpec are        *)
(* sessions of some variants in which the input of one function            *)
(* (cosineSimByIndex, tokenizeText) ranges over a wider set.               *)
(***************************************************************************)
EXTENDS Integers, Sequences, FiniteSets, Bags, TLC

\* ------------------------------------------------------------ constants
SIM_D == 50

TopK == 10

\* how many point-selection handlers may be suspended at once
MaxClicks == 2

Variants == 1..4

\* ------------------------------------------------------------ the assets
\* vocab.json as the server may deliver it: a JSON array of words
Vocabs == { <<"a", "b", "c">>, <<"b", "a">> }

\* component k (0-based) of the vector stored for index i (0-based):
\* index 0 is e0, index 1 is e0 + e49, index 2 is the zero vector, the
\* others are -e0
VecComp(i, k) ==
  CASE i = 0 -> IF k = 0 THEN 1 ELSE 0
    [] i = 1 -> IF k = 0 \/ k = SIM_D - 1 THEN 1 ELSE 0
    [] i = 2 -> 0
    [] OTHER -> IF k = 0 THEN 0 - 1 ELSE 0

\* vec50.bin as a Float32Array of n elements
MakeBuf(n) == [p \in 1..n |-> VecComp((p - 1) \div SIM_D, (p - 1) % SIM_D)]

\* the lengths the server may deliver: each is right for one vocabulary and
\* wrong for the other
BufLens == {2 * SIM_D, 3 * SIM_D}

Buffers == {MakeBuf(n) : n \in BufLens}

\* the most vectors a buffer of WideBuffers holds
MaxVectors == 3

\* a buffer whose i-th vector is the vector VecComp gives for shapes[i]
ShapedBuf(shapes) ==
  [p \in 1..(Len(shapes) * SIM_D) |->
     VecComp(shapes[(p - 1) \div SIM_D + 1], (p - 1) % SIM_D)]

\* vec50.bin with any of the four vectors at any index
WideBuffers ==
  {ShapedBuf(sh) : sh \in UNION {[1..n -> 0..3] : n \in 1..MaxVectors}}

\* coords.csv, each line already split at its commas; a blank line is the
\* one-field line <<"">>.  The file has the rows the parser tells apart: a
\* header, good rows, a blank line, an empty x, a non-finite x, a missing y,
\* an empty word
CoordsFiles ==
  { << <<"word", "x", "y">>, <<"a", "1", "2">>, <<"">>, <<"b", "", "4">>,
       <<"c", "3", "3">>, <<"d", "5", "6">>, <<"e", "Infinity", "1">>,
       <<"f", "5">>, <<"", "1", "1">>, <<"g", "x", "1">> >> }

\* the tokens the analyzer returns
Tok(pos, basic, surface) ==
  [pos |-> pos, basic_form |-> basic, surface_form |-> surface]

\* the texts of the text box, each given as the tokens tokenizer.tokenize
\* returns for it; <<>> is the empty (or blank) text
Texts ==
  { <<>>,
    << Tok("noun", "a", "a"), Tok("verb", "*", "d"), Tok("noun", "a", "as"),
       Tok("noun", "e", "e") >>,
    << Tok("adj", "b", "b"), Tok("particle", "c", "c"),
       Tok("particle", "", "a"), Tok("symbol", " ", " ") >> }

\* the longest text of TokenTexts, in tokens
MaxTokens == 3

\* tokens that differ in what tokenizeText looks at: a content word, the same
\* word with its basic form missing, a particle, an inflected word whose
\* basic form is the particle's, white space
TokenKinds ==
  { Tok("noun", "a", "a"), Tok("verb", "*", "a"), Tok("particle", "b", "b"),
    Tok("adj", "b", "bs"), Tok("symbol", " ", " ") }

\* every text of at most MaxTokens tokens
TokenTexts == UNION {[1..n -> TokenKinds] : n \in 0..MaxTokens}

\* ------------------------------------------------------------ helpers
Range(s) == {s[i] : i \in 1..Len(s)}

Min(a, b) == IF a < b THEN a ELSE b

Take(s, n) == SubSeq(s, 1, Min(n, Len(s)))

\* ------------------------------------------------------------ tokenizing
isTargetPOS(t) == t.pos \in {"noun", "verb", "adj"}

\* (t.basic_form && t.basic_form !== "*") ? t.basic_form : t.surface_form
WordForm(t) ==
  IF t.basic_form # "" /\ t.basic_form # "*" THEN t.basic_form
  ELSE t.surface_form

\* !w || !w.trim()
IsBlank(w) == w \in {"", " "}

RECURSIVE tokenizeText(_, _)
\* the words of the tokens, in order; posFilter is els.posFilter.checked
tokenizeText(tokens, posFilter) ==
  IF tokens = <<>> THEN <<>>
  ELSE LET t == Head(tokens)
           rest == tokenizeText(Tail(tokens), posFilter)
       IN IF posFilter /\ ~isTargetPOS(t) THEN rest
          ELSE IF IsBlank(WordForm(t)) THEN rest
          ELSE <<WordForm(t)>> \o rest

RECURSIVE UniqueFrom(_, _)
UniqueFrom(words, seen) ==
  IF words = <<>> THEN <<>>
  ELSE IF Head(words) \in seen THEN UniqueFrom(Tail(words), seen)
  ELSE <<Head(words)>> \o UniqueFrom(Tail(words), seen \cup {Head(words)})

\* no deduplication: the list as tokenizeText returned it
KeepAll(words) == words

\* [...new Set(words)]
UniqueWords(words) == UniqueFrom(words, {})

\* the word list of a run: tokenize, then deduplicate when uniqueOnly is set
RunWords(text, posFilter, uniqueOnly) ==
  IF uniqueOnly THEN UniqueWords(tokenizeText(text, posFilter))
  ELSE tokenizeText(text, posFilter)

\* ------------------------------------------------------------ coordinates
\* Number(field) for the fields of the coordinate files: a decimal digit is
\* its value, the empty or blank string is 0, anything else is not finite
DigitVal ==
  [f \in {"0", "1", "2", "3", "4", "5", "6", "7", "8", "9"} |->
     CASE f = "0" -> 0 [] f = "1" -> 1 [] f = "2" -> 2 [] f = "3" -> 3
       [] f = "4" -> 4 [] f = "5" -> 5 [] f = "6" -> 6 [] f = "7" -> 7
       [] f = "8" -> 8 [] OTHER -> 9]

NumberOf(f) ==
  IF f \in DOMAIN DigitVal THEN [finite |-> TRUE, val |-> DigitVal[f]]
  ELSE IF f \in {"", " "} THEN [finite |-> TRUE, val |-> 0]
  ELSE [finite |-> FALSE, val |-> 0]

\* the i-th field of a split line; a field the line does not have is
\* undefined, and Number(undefined) is NaN
FieldNumber(parts, i) ==
  IF i <= Len(parts) THEN NumberOf(parts[i]) ELSE [finite |-> FALSE, val |-> 0]

\* l.trim().length > 0 on a split line
NonBlankLine(parts) == ~(Len(parts) = 1 /\ IsBlank(parts[1]))

RECURSIVE NonBlankLines(_)
NonBlankLines(lines) ==
  IF lines = <<>> THEN <<>>
  ELSE (IF NonBlankLine(Head(lines)) THEN <<Head(lines)>> ELSE <<>>)
       \o NonBlankLines(Tail(lines))

\* one row of the loop: coordMap.set(word, {x, y}) when word is non-empty
\* and both numbers are finite
SetRow(map, parts) ==
  LET word == IF Len(parts) >= 1 THEN parts[1] ELSE ""
      xx == FieldNumber(parts, 2)
      yy == FieldNumber(parts, 3)
  IN IF word # "" /\ xx.finite /\ yy.finite
     THEN [w \in DOMAIN map \cup {word} |->
             IF w = word THEN <<xx.val, yy.val>> ELSE map[w]]
     ELSE map

RECURSIVE SetRows(_, _)
SetRows(map, rows) ==
  IF rows = <<>> THEN map ELSE SetRows(SetRow(map, Head(rows)), Tail(rows))

\* the loop of loadCoords / ensureCoords: the first non-blank line is the
\* header and is skipped
ParseCoords(map, lines) ==
  LET nb == NonBlankLines(lines)
  IN IF nb = <<>> THEN map ELSE SetRows(map, Tail(nb))

EmptyMap == [w \in {} |-> 0]

\* ------------------------------------------------------------ similarity
\* new Map(vocab.map((w, i) => [w, i])): a repeated word keeps its last index
IndexOf(v) ==
  [w \in Range(v) |->
     (CHOOSE i \in 1..Len(v) :
        v[i] = w /\ \A j \in 1..Len(v) : v[j] = w => j <= i) - 1]

\* A similarity score.  A number is kept exactly as the three sums of the
\* loop: it stands for dot / (sqrt(ni) * sqrt(nj)).  nan is the NaN that
\* arithmetic on a value read past the end of the buffer gives.
NaN == [nan |-> TRUE, dot |-> 0, ni |-> 0, nj |-> 0]

Num(dot, ni, nj) == [nan |-> FALSE, dot |-> dot, ni |-> ni, nj |-> nj]

ZeroScore == Num(0, 1, 1)

RECURSIVE SumProd(_, _, _, _)
\* sum over k < n of vec[offA + k] * vec[offB + k] (offsets 0-based)
SumProd(vec, offA, offB, n) ==
  IF n = 0 THEN 0
  ELSE vec[offA + n] * vec[offB + n] + SumProd(vec, offA, offB, n - 1)

\* whether all SIM_D reads from offset off are inside the buffer
InBuffer(vec, off) == off + SIM_D <= Len(vec)

\* cosineSimByIndex without its line `if (ni === 0 || nj === 0) return 0`:
\* a zero norm makes the division 0 / 0
cosineSimNoZeroCheck(vec, i, j) ==
  LET offI == i * SIM_D
      offJ == j * SIM_D
      okI == InBuffer(vec, offI)
      okJ == InBuffer(vec, offJ)
      ni == IF okI THEN SumProd(vec, offI, offI, SIM_D) ELSE 0
      nj == IF okJ THEN SumProd(vec, offJ, offJ, SIM_D) ELSE 0
  IN IF ~okI \/ ~okJ \/ ni = 0 \/ nj = 0 THEN NaN
     ELSE Num(SumProd(vec, offI, offJ, SIM_D), ni, nj)

cosineSimByIndex(vec, i, j) ==
  LET offI == i * SIM_D
      offJ == j * SIM_D
      okI == InBuffer(vec, offI)
      okJ == InBuffer(vec, offJ)
      ni == IF okI THEN SumProd(vec, offI, offI, SIM_D) ELSE 0
      nj == IF okJ THEN SumProd(vec, offJ, offJ, SIM_D) ELSE 0
  IN IF (okI /\ ni = 0) \/ (okJ /\ nj = 0) THEN ZeroScore
     ELSE IF ~okI \/ ~okJ THEN NaN
     ELSE Num(SumProd(vec, offI, offJ, SIM_D), ni, nj)

\* the indices the vocabularies give
Indices == UNION { 0..(Len(v) - 1) : v \in Vocabs }

\* cosineSimByIndex tabulated over the buffers and indices of the model: the
\* same values, computed once (@@ makes TLC store the table it builds)
CosineMemo ==
  [b \in Buffers |->
     [ij \in Indices \X Indices |->
        cosineSimByIndex(b, ij[1], ij[2])] @@ <<>>] @@ <<>>

Cosine(vec, i, j) ==
  IF vec \in Buffers /\ i \in Indices /\ j \in Indices
  THEN CosineMemo[vec][<<i, j>>]
  ELSE cosineSimByIndex(vec, i, j)

\* the sign of s * |s| for a numeric score, as a fraction num / den
SqNum(s) == IF s.dot < 0 THEN 0 - (s.dot * s.dot) ELSE s.dot * s.dot

SqDen(s) == s.ni * s.nj

\* s1 > s2 for numeric scores
ScoreGT(s1, s2) == SqNum(s1) * SqDen(s2) > SqNum(s2) * SqDen(s1)

\* the comparator (a, b) => b.s - a.s is negative: a goes before b
GoesBefore(a, b) == ~a.s.nan /\ ~b.s.nan /\ ScoreGT(a.s, b.s)

RECURSIVE InsertDesc(_, _)
\* e put into the sorted list s behind every entry it does not go before
InsertDesc(e, s) ==
  IF s = <<>> THEN <<e>>
  ELSE IF GoesBefore(e, Head(s)) THEN <<e>> \o s
  ELSE <<Head(s)>> \o InsertDesc(e, Tail(s))

RECURSIVE StableSortDesc(_)
StableSortDesc(s) ==
  IF s = <<>> THEN <<>>
  ELSE InsertDesc(s[Len(s)], StableSortDesc(SubSeq(s, 1, Len(s) - 1)))

\* whether the comparator is a consistent one on s: a NaN score compares
\* equal to every score, so with a NaN present all numbers must be equal
ConsistentOrder(s) ==
  (\E i \in 1..Len(s) : s[i].s.nan)
    => \A i, j \in 1..Len(s) :
         (~s[i].s.nan /\ ~s[j].s.nan) => ~ScoreGT(s[i].s, s[j].s)

\* Array.prototype.sort: stable for a consistent comparator, otherwise the
\* order is implementation-defined (any permutation)
SortOutcomes(s) ==
  IF ConsistentOrder(s) THEN {StableSortDesc(s)}
  ELSE {[i \in 1..Len(s) |-> s[p[i]]] : p \in Permutations(1..Len(s))}

\* the filter without w !== word: the selected word is ranked against itself
EligibleWithSelf(w, word, index) == w \in DOMAIN index

\* the filter callback w => w !== word && wordToIndex.has(w)
Eligible(w, word, index) == w # word /\ w \in DOMAIN index

RECURSIVE Candidates(_, _, _, _)
\* currentWords.filter(w => w !== word && wordToIndex.has(w))
\*             .map(w => ({w, s: cosineSimByIndex(i, wordToIndex.get(w))}))
Candidates(word, pool, index, vec) ==
  IF pool = <<>> THEN <<>>
  ELSE LET w == Head(pool)
           rest == Candidates(word, Tail(pool), index, vec)
       IN IF Eligible(w, word, index)
          THEN <<[w |-> w, s |-> Cosine(vec, index[word], index[w])]>>
               \o rest
          ELSE rest

\* the lists showSimilar may append for word: none when the word has no
\* index, else the first TopK of the sorted candidates
SimsOutcomes(word, pool, index, vec) ==
  IF word \notin DOMAIN index THEN {<<>>}
  ELSE {Take(s, TopK) : s \in SortOutcomes(Candidates(word, pool, index, vec))}

\* ------------------------------------------------------------ state
VARIABLES
  variant,       \* which of the four variants of the page this session runs
  initPc,        \* where init() is: "none" (the variant has no init),
                 \* "tokenizer", "coords", "vocab", "vec", "done", "failed"
  tokenizer,     \* TRUE when tokenizer is set (not null)
  scriptTags,    \* the libraries with a <script> element in the document
  libs,          \* the libraries whose global (window.Plotly, window.kuromoji)
                 \* is defined
  coordsLoaded,
  coordMap,      \* word -> <<x, y>>
  simLoaded,     \* simLoaded / simModelLoaded
  vocab,         \* the global vocab of variants 1 and 4
  wordToIndex,   \* word -> index
  vecData,       \* the Float32Array as a sequence; <<>> is null
  currentWords,
  plotWords,     \* the words of the plot on the page, which the click
                 \* listener closes over; <<>> when nothing is plotted
  selectedWord,  \* els.selectedWord.textContent
  simList,       \* the entries of els.simList, [w, s] each
  status,        \* els.status.textContent
  runDisabled,   \* els.run.disabled
  run,           \* the run() in progress: [pc, text, words]
  clicks,        \* the bag of suspended showSimilar calls: [word, pc, v],
                 \* v the vocabulary the call fetched
  last           \* what the last step reported: the error alert it raised
                 \* ("" for none) and whether an error left its handler
                 \* uncaught; written by every step

vars == << variant, initPc, tokenizer, scriptTags, libs, coordsLoaded,
           coordMap, simLoaded, vocab, wordToIndex, vecData, currentWords,
           plotWords, selectedWord, simList, status, runDisabled, run,
           clicks, last >>

IdleRun == [pc |-> "idle", text |-> <<>>, words |-> <<>>]

NoError == [alert |-> "", escaped |-> FALSE]

\* alert(...) in a catch block
Alerted(msg) == [alert |-> msg, escaped |-> FALSE]

\* an error no handler catches (an unhandled rejection)
Escaped == [alert |-> "", escaped |-> TRUE]

Init ==
  /\ variant \in Variants
  /\ initPc = IF variant \in {1, 4} THEN "tokenizer" ELSE "none"
  /\ tokenizer = FALSE
  /\ scriptTags = IF variant \in {1, 4} THEN {"plotly", "kuromoji"} ELSE {}
  /\ libs = IF variant \in {1, 4} THEN {"plotly", "kuromoji"} ELSE {}
  /\ coordsLoaded = FALSE
  /\ coordMap = EmptyMap
  /\ simLoaded = FALSE
  /\ vocab = <<>>
  /\ wordToIndex = EmptyMap
  /\ vecData = <<>>
  /\ currentWords = <<>>
  /\ plotWords = <<>>
  /\ selectedWord = ""
  /\ simList = <<>>
  /\ status = IF variant \in {1, 4} THEN "loadingDict" ELSE "readyToStart"
  /\ runDisabled = (variant \in {1, 4})
  /\ run = IdleRun
  /\ clicks = EmptyBag
  /\ last = NoError

\* ------------------------------------------------------------ init()
\* vecData.length !== vocab.length * SIM_D is false
LengthOk(buf, n) == Len(buf) = n * SIM_D

\* a catch of init() that enables the run button again
InitFailedEnablingRun ==
  /\ initPc' = "failed"
  /\ status' = "initError"
  /\ last' = Alerted("init")
  /\ runDisabled' = FALSE

\* the catch of init(): the run button stays disabled
InitFailed ==
  /\ initPc' = "failed"
  /\ status' = "initError"
  /\ last' = Alerted("init")
  /\ UNCHANGED << runDisabled >>

\* the build callback of loadTokenizer fires, with a tokenizer or an error
InitTokenizerBuilt(ok) ==
  /\ initPc = "tokenizer"
  /\ IF ok
     THEN /\ tokenizer' = TRUE
          /\ IF variant = 1
             THEN /\ initPc' = "coords"
                  /\ status' = "loadingCoords"
                  /\ last' = NoError
                  /\ UNCHANGED runDisabled
             ELSE /\ initPc' = "done"
                  /\ status' = "ready"
                  /\ runDisabled' = FALSE
                  /\ last' = NoError
     ELSE /\ InitFailed
          /\ UNCHANGED tokenizer
  /\ UNCHANGED << variant, scriptTags, libs, coordsLoaded, coordMap,
                  simLoaded, vocab, wordToIndex, vecData, currentWords,
                  plotWords, selectedWord, simList, run, clicks >>

\* variant 1, loadCoords: coords.csv arrives
InitCoordsFetched(file) ==
  /\ initPc = "coords"
  /\ coordMap' = ParseCoords(coordMap, file)
  /\ initPc' = "vocab"
  /\ status' = "loadingVocab"
  /\ last' = NoError
  /\ UNCHANGED << variant, tokenizer, scriptTags, libs, coordsLoaded,
                  simLoaded, vocab, wordToIndex, vecData, currentWords,
                  plotWords, selectedWord, simList, runDisabled, run, clicks >>

\* variant 1, loadVocabAndVec: vocab.json arrives
InitVocabFetched(v) ==
  /\ initPc = "vocab"
  /\ vocab' = v
  /\ wordToIndex' = IndexOf(v)
  /\ initPc' = "vec"
  /\ status' = "loadingVec"
  /\ last' = NoError
  /\ UNCHANGED << variant, tokenizer, scriptTags, libs, coordsLoaded,
                  coordMap, simLoaded, vecData, currentWords, plotWords,
                  selectedWord, simList, runDisabled, run, clicks >>

\* variant 1, loadVocabAndVec: vec50.bin arrives and its length is checked
InitVecFetched(buf) ==
  /\ initPc = "vec"
  /\ vecData' = buf
  /\ IF LengthOk(buf, Len(vocab))
     THEN /\ initPc' = "done"
          /\ status' = "ready"
          /\ runDisabled' = FALSE
          /\ last' = NoError
     ELSE InitFailed
  /\ UNCHANGED << variant, tokenizer, scriptTags, libs, coordsLoaded,
                  coordMap, simLoaded, vocab, wordToIndex, currentWords,
                  plotWords, selectedWord, simList, run, clicks >>

\* variant 1: a fetch of init() rejects, or a body does not parse
InitFetchFailed ==
  /\ initPc \in {"coords", "vocab", "vec"}
  /\ InitFailed
  /\ UNCHANGED << variant, tokenizer, scriptTags, libs, coordsLoaded,
                  coordMap, simLoaded, vocab, wordToIndex, vecData,
                  currentWords, plotWords, selectedWord, simList, run,
                  clicks >>

\* ------------------------------------------------------------ showSimilar
\* the word the click listener passes to showSimilar for point idx (1-based):
\* words[idx] of the listener's closure, currentWords[idx] in variant 4
ClickedWord(idx) ==
  IF variant = 4
  THEN IF idx <= Len(currentWords) THEN currentWords[idx] ELSE "undefined"
  ELSE plotWords[idx]

\* the vocabulary length ensureSimModel checks the buffer against: its local
\* vocab, which in variant 4 is the global one
ExpectedLen(h) == IF variant = 4 THEN Len(vocab) ELSE Len(h.v)

\* showSimilar without the early return of ensureSimModel: every point
\* selection of a lazy variant loads the model again
SimReadyForgotten == variant = 1

\* showSimilar needs no load: variant 1 has none, in the others
\* ensureSimModel returns at once (if (simLoaded) return)
SimReady == variant = 1 \/ simLoaded

\* a plotly_click on point idx: showSimilar up to its first real suspension
PointClick(idx) ==
  /\ plotWords # <<>>
  /\ idx \in 1..Len(plotWords)
  /\ LET word == ClickedWord(idx)
     IN /\ selectedWord' = word
        /\ IF SimReady
           THEN \* no load: the list is cleared and filled in this task
                /\ \E sims \in SimsOutcomes(word, currentWords, wordToIndex,
                                            vecData) :
                     simList' = sims
                /\ last' = NoError
                /\ UNCHANGED << status, clicks >>
           ELSE \* ensureSimModel starts a load and waits for vocab.json
                /\ BagCardinality(clicks) < MaxClicks
                /\ simList' = <<>>
                /\ status' = "loadingSim"
                /\ clicks' = clicks (+) SetToBag({[word |-> word,
                                                   pc |-> "vocab", v |-> <<>>]})
                /\ last' = NoError
  /\ UNCHANGED << variant, initPc, tokenizer, scriptTags, libs, coordsLoaded,
                  coordMap, simLoaded, vocab, wordToIndex, vecData,
                  currentWords, plotWords, runDisabled, run >>

\* ensureSimModel: vocab.json arrives for the suspended call h
VocabFetched(h, v) ==
  /\ BagIn(h, clicks)
  /\ h.pc = "vocab"
  /\ wordToIndex' = IndexOf(v)
  /\ vocab' = IF variant = 4 THEN v ELSE vocab
  /\ clicks' = (clicks (-) SetToBag({h}))
                 (+) SetToBag({[h EXCEPT !.pc = "vec", !.v = v]})
  /\ last' = NoError
  /\ UNCHANGED << variant, initPc, tokenizer, scriptTags, libs, coordsLoaded,
                  coordMap, simLoaded, vecData, currentWords, plotWords,
                  selectedWord, simList, status, runDisabled, run >>

\* the status ensureSimModel leaves after a successful load
SimReadyStatus ==
  CASE variant = 3 -> "ready"
    [] variant = 4 -> "simReady"
    [] OTHER -> status

\* ensureSimModel: vec50.bin arrives for h; the length check, and on success
\* the rest of showSimilar
VecFetched(h, buf) ==
  /\ BagIn(h, clicks)
  /\ h.pc = "vec"
  /\ vecData' = buf
  /\ clicks' = clicks (-) SetToBag({h})
  /\ IF LengthOk(buf, ExpectedLen(h))
     THEN /\ simLoaded' = TRUE
          /\ status' = SimReadyStatus
          /\ \E sims \in SimsOutcomes(h.word, currentWords, wordToIndex, buf) :
               simList' = simList \o sims
          /\ last' = NoError
     ELSE \* the mismatch error leaves the click listener uncaught
          /\ last' = Escaped
          /\ UNCHANGED << simLoaded, status, simList >>
  /\ UNCHANGED << variant, initPc, tokenizer, scriptTags, libs, coordsLoaded,
                  coordMap, vocab, wordToIndex, currentWords, plotWords,
                  selectedWord, runDisabled, run >>

\* ensureSimModel: a fetch rejects or a body does not parse; the error
\* leaves the click listener uncaught
SimFetchFailed(h) ==
  /\ BagIn(h, clicks)
  /\ clicks' = clicks (-) SetToBag({h})
  /\ last' = Escaped
  /\ UNCHANGED << variant, initPc, tokenizer, scriptTags, libs, coordsLoaded,
                  coordMap, simLoaded, vocab, wordToIndex, vecData,
                  currentWords, plotWords, selectedWord, simList, status,
                  runDisabled, run >>

\* ------------------------------------------------------------ run()
RECURSIVE PlotFilter(_, _, _)
\* the loop of run(): the words with coordinates; variant 1 (both = TRUE)
\* also drops the words without an index
PlotFilter(words, cmap, both) ==
  IF words = <<>> THEN <<>>
  ELSE LET w == Head(words)
           rest == PlotFilter(Tail(words), cmap, both)
       IN IF w \notin DOMAIN cmap THEN rest
          ELSE IF both /\ w \notin DOMAIN wordToIndex THEN rest
          ELSE <<w>> \o rest

\* the check written as kept.length < 1: one word is enough to plot
TooFewOnlyWhenEmpty(kept) == Len(kept) < 1

\* kept.length < 2
TooFew(kept) == Len(kept) < 2

\* the part of the state run() reads and writes, as a record
RunState ==
  [tokenizer |-> tokenizer, scriptTags |-> scriptTags, libs |-> libs,
   coordsLoaded |-> coordsLoaded, coordMap |-> coordMap,
   currentWords |-> currentWords, plotWords |-> plotWords,
   status |-> status, runDisabled |-> runDisabled, run |-> run,
   last |-> last]

SetRunState(s) ==
  /\ tokenizer' = s.tokenizer
  /\ scriptTags' = s.scriptTags
  /\ libs' = s.libs
  /\ coordsLoaded' = s.coordsLoaded
  /\ coordMap' = s.coordMap
  /\ currentWords' = s.currentWords
  /\ plotWords' = s.plotWords
  /\ status' = s.status
  /\ runDisabled' = s.runDisabled
  /\ run' = s.run
  /\ last' = s.last

\* run() waits at pc
Suspend(s, pc) ==
  [s EXCEPT !.run.pc = pc, !.last = NoError]

\* run() returns: the finally of variants 2 and 3 enables the button, variants
\* 1 and 4 enable it themselves on the paths that reach their last lines
Finish(s) ==
  [s EXCEPT !.run = IdleRun, !.runDisabled = FALSE, !.last = NoError]

\* an error inside run() that also drops the tokenizer, so that the next
\* run builds it again
FailDroppingTokenizer(s) ==
  IF variant \in {2, 3}
  THEN [s EXCEPT !.run = IdleRun, !.runDisabled = FALSE, !.status = "error",
                 !.last = Alerted("error"), !.tokenizer = FALSE]
  ELSE [s EXCEPT !.run = IdleRun, !.last = Escaped, !.tokenizer = FALSE]

\* an error inside run(): variants 2 and 3 catch it (alert, status, finally);
\* in variants 1 and 4 it leaves run() and the button stays disabled
Fail(s) ==
  IF variant \in {2, 3}
  THEN [s EXCEPT !.run = IdleRun, !.runDisabled = FALSE, !.status = "error",
                 !.last = Alerted("error")]
  ELSE [s EXCEPT !.run = IdleRun, !.last = Escaped]

\* the two check boxes, read when the step tokenizes
Inputs == [posFilter : BOOLEAN, uniqueOnly : BOOLEAN]

\* RunWords tabulated over the texts and check boxes of the model: the same
\* values, computed once
WordsMemo ==
  [text \in Texts |->
     [in \in Inputs |-> RunWords(text, in.posFilter, in.uniqueOnly)]
       @@ <<>>] @@ <<>>

\* the word list of a run, from the table where the table has it
Words(text, in) ==
  IF text \in Texts THEN WordsMemo[text][in]
  ELSE RunWords(text, in.posFilter, in.uniqueOnly)

\* let words = tokenizeText(text); if (uniqueOnly) words = [...new Set(words)]
Tokenized(s, in) ==
  [s EXCEPT !.status = "tokenizing", !.run.words = Words(s.run.text, in)]

RECURSIVE RunExec(_, _, _)
\* run() from the place `at` to its next suspension or its end; `in` holds
\* the two check boxes as they are when the text is tokenized
RunExec(at, s, in) ==
  CASE at = "begin" ->
         IF variant = 2 THEN RunExec("ensureTokenizer", s, in)
         ELSE IF variant = 3 THEN RunExec("ensurePlotly", s, in)
         ELSE IF ~s.tokenizer THEN Fail([s EXCEPT !.status = "tokenizing"])
         ELSE IF variant = 1 THEN RunExec("filter", Tokenized(s, in), in)
         ELSE RunExec("ensureCoords", Tokenized(s, in), in)
    [] at = "ensurePlotly" ->
         IF "plotly" \in s.libs THEN RunExec("ensureTokenizer", s, in)
         ELSE RunExec("loadPlotly", [s EXCEPT !.status = "loadingPlotly"], in)
    [] at = "ensureTokenizer" ->
         IF s.tokenizer
         THEN RunExec(IF variant = 2 THEN "tokenize" ELSE "ensureCoords", s, in)
         ELSE IF variant = 2
         THEN RunExec("loadPlotly", [s EXCEPT !.status = "loadingLibs"], in)
         ELSE RunExec("loadKuromoji",
                      [s EXCEPT !.status = "preparingTokenizer"], in)
    [] at = "loadPlotly" ->
         \* loadScriptOnce(PLOTLY_URL)
         IF "plotly" \in s.scriptTags
         THEN RunExec(IF variant = 2 THEN "loadKuromoji" ELSE "ensureTokenizer",
                      s, in)
         ELSE Suspend([s EXCEPT !.scriptTags = @ \cup {"plotly"}], "plotly")
    [] at = "loadKuromoji" ->
         \* loadScriptOnce(KUROMOJI_URL)
         IF "kuromoji" \in s.scriptTags THEN RunExec("build", s, in)
         ELSE Suspend([s EXCEPT !.scriptTags = @ \cup {"kuromoji"}], "kuromoji")
    [] at = "build" ->
         \* window.kuromoji.builder(...).build(callback)
         LET t == IF variant = 2 THEN [s EXCEPT !.status = "preparingTokenizer"]
                  ELSE s
         IN IF "kuromoji" \in s.libs THEN Suspend(t, "build") ELSE Fail(t)
    [] at = "built" ->
         IF variant = 2
         THEN RunExec("tokenize",
                      [s EXCEPT !.tokenizer = TRUE, !.status = "ready"], in)
         ELSE RunExec("ensureCoords", [s EXCEPT !.tokenizer = TRUE], in)
    [] at = "tokenize" ->
         RunExec(IF variant = 2 THEN "ensureCoords" ELSE "filter",
                 Tokenized(s, in), in)
    [] at = "ensureCoords" ->
         IF s.coordsLoaded THEN RunExec("haveCoords", s, in)
         ELSE Suspend([s EXCEPT !.status = "loadingCoords"], "coords")
    [] at = "haveCoords" ->
         RunExec(IF variant = 3 THEN "tokenize" ELSE "filter", s, in)
    [] OTHER ->
         \* at = "filter"
         LET kept == PlotFilter(s.run.words, s.coordMap, variant = 1)
         IN IF TooFew(kept) THEN Finish([s EXCEPT !.status = "tooFew"])
            ELSE LET t == [s EXCEPT !.currentWords = kept, !.status = "plotted"]
                 IN IF "plotly" \in s.libs
                    THEN Finish([t EXCEPT !.plotWords = kept])
                    ELSE Fail(t)

\* what a run step leaves alone, but for showSimilar(kept[0]) of variant 1
RunFrame ==
  UNCHANGED << variant, initPc, simLoaded, vocab, wordToIndex, vecData,
               clicks >>

\* whether the run step that left s rendered a plot
Plotted(s) == s.run.pc = "idle" /\ s.status = "plotted" /\ ~s.runDisabled

\* the end of a run step: variant 1 calls showSimilar(kept[0]) after it
\* plotted, and enables the button after that
RunStep(s) ==
  /\ RunFrame
  /\ SetRunState(s)
  /\ IF variant = 1 /\ Plotted(s)
     THEN /\ selectedWord' = s.currentWords[1]
          /\ \E sims \in SimsOutcomes(s.currentWords[1], s.currentWords,
                                      wordToIndex, vecData) :
               simList' = sims
     ELSE UNCHANGED << selectedWord, simList >>

\* a click on the run button with an empty or blank text box: alert, return.
\* The alert asks for text and reports no error; last holds error alerts.
RunClickEmpty ==
  /\ ~runDisabled
  /\ UNCHANGED vars

\* run() as a click on the run button starts it
BeginRun(text) == [RunState EXCEPT !.runDisabled = TRUE, !.run.text = text]

\* the state run() leaves when the button is clicked with `text`,
AfterClick(text, in) == RunExec("begin", BeginRun(text), in)

\* when the script it waits for has loaded,
AfterScript(in) ==
  RunExec(IF run.pc = "kuromoji" THEN "build"
          ELSE IF variant = 2 THEN "loadKuromoji"
          ELSE "ensureTokenizer",
          [RunState EXCEPT !.libs = @ \cup {run.pc}], in)

\* when the build callback has delivered the tokenizer,
AfterBuild(in) == RunExec("built", RunState, in)

\* and when coords.csv has arrived
AfterCoords(file, in) ==
  RunExec("haveCoords",
          [RunState EXCEPT !.coordMap = ParseCoords(coordMap, file),
                           !.coordsLoaded = TRUE,
                           !.status = IF variant = 4 THEN "coordsReady" ELSE @],
          in)

\* a click on the run button with `text` in the text box
RunClick(text, in) ==
  /\ ~runDisabled
  /\ text # <<>>
  /\ RunStep(AfterClick(text, in))

\* the script element run() waits for loads, or fails to
RunScriptLoaded(ok, in) ==
  /\ run.pc \in {"plotly", "kuromoji"}
  /\ IF ok THEN RunStep(AfterScript(in)) ELSE RunStep(Fail(RunState))

\* the tokenizer build ends: with a tokenizer ("ok"), with an error ("err"),
\* or, in variant 3, by the 20 s timer firing first ("timeout")
RunBuildDone(outcome, in) ==
  /\ run.pc = "build"
  /\ outcome = "timeout" => variant = 3
  /\ IF outcome = "ok" THEN RunStep(AfterBuild(in))
     ELSE RunStep(Fail(RunState))

\* ensureCoords: coords.csv arrives
RunCoordsFetched(file, in) ==
  /\ run.pc = "coords"
  /\ RunStep(AfterCoords(file, in))

\* ensureCoords: the fetch rejects
RunCoordsFailed ==
  /\ run.pc = "coords"
  /\ RunStep(Fail(RunState))

\* ------------------------------------------------------------ the system
Next ==
  \/ \E ok \in BOOLEAN : InitTokenizerBuilt(ok)
  \/ \E file \in CoordsFiles : InitCoordsFetched(file)
  \/ \E v \in Vocabs : InitVocabFetched(v)
  \/ \E buf \in Buffers : InitVecFetched(buf)
  \/ InitFetchFailed
  \/ RunClickEmpty
  \/ \E text \in Texts, in \in Inputs : RunClick(text, in)
  \/ \E ok \in BOOLEAN, in \in Inputs : RunScriptLoaded(ok, in)
  \/ \E outcome \in {"ok", "err", "timeout"}, in \in Inputs :
       RunBuildDone(outcome, in)
  \/ \E file \in CoordsFiles, in \in Inputs : RunCoordsFetched(file, in)
  \/ RunCoordsFailed
  \/ \E idx \in 1..Len(plotWords) : PointClick(idx)
  \/ \E h \in BagToSet(clicks), v \in Vocabs : VocabFetched(h, v)
  \/ \E h \in BagToSet(clicks), buf \in Buffers : VecFetched(h, buf)
  \/ \E h \in BagToSet(clicks) : SimFetchFailed(h)

Spec == Init /\ [][Next]_vars

\* ------------------------------------------------------------ fairness
\* What the page waits for, by the kind of event that ends the wait.
\* A fetch of init() settles:
InitLoads ==
  \/ \E file \in CoordsFiles : InitCoordsFetched(file)
  \/ \E v \in Vocabs : InitVocabFetched(v)
  \/ \E buf \in Buffers : InitVecFetched(buf)
  \/ InitFetchFailed

\* the build callback of init() fires
InitBuild == \E ok \in BOOLEAN : InitTokenizerBuilt(ok)

\* a script element or a fetch of run() settles
RunLoads ==
  \/ \E ok \in BOOLEAN, in \in Inputs : RunScriptLoaded(ok, in)
  \/ \E file \in CoordsFiles, in \in Inputs : RunCoordsFetched(file, in)
  \/ RunCoordsFailed

\* the build callback of run() fires
RunBuild ==
  \E in \in Inputs : RunBuildDone("ok", in) \/ RunBuildDone("err", in)

\* the setTimeout of buildTokenizerWithTimeout fires
BuildTimer == \E in \in Inputs : RunBuildDone("timeout", in)

\* a fetch of ensureSimModel settles
ClickLoads ==
  \/ \E h \in BagToSet(clicks), v \in Vocabs : VocabFetched(h, v)
  \/ \E h \in BagToSet(clicks), buf \in Buffers : VecFetched(h, buf)
  \/ \E h \in BagToSet(clicks) : SimFetchFailed(h)

\* The browser settles every fetch and every script element (it loads or it
\* fails) and fires every timer; the user is free to click or not
Settles ==
  /\ WF_vars(InitLoads)
  /\ WF_vars(RunLoads)
  /\ WF_vars(ClickLoads)
  /\ WF_vars(BuildTimer)

\* nothing promises that the analyzer calls the build callback
DeadlineSpec == Spec /\ Settles

\* the analyzer calls every build callback, with a tokenizer or an error
FairSpec == Spec /\ Settles /\ WF_vars(InitBuild) /\ WF_vars(RunBuild)

\* ------------------------------------------------------------ similarity
\* Sessions of variant 1 in which every load succeeds and vec50.bin is any
\* buffer of WideBuffers: the inputs of cosineSimByIndex
SimilarityInit == Init /\ variant = 1

SimilarityNext ==
  \/ InitTokenizerBuilt(TRUE)
  \/ \E file \in CoordsFiles : InitCoordsFetched(file)
  \/ \E v \in Vocabs : InitVocabFetched(v)
  \/ \E buf \in WideBuffers : InitVecFetched(buf)
  \/ \E text \in Texts, in \in Inputs : RunClick(text, in)
  \/ \E idx \in 1..Len(plotWords) : PointClick(idx)

SimilaritySpec == SimilarityInit /\ [][SimilarityNext]_vars

\* ------------------------------------------------------------ rankings
\* The steps in which showSimilar gets past its loads and ranks a word:
\* a point selection that finds the model ready,
RankedByClick ==
  /\ variant = 1 \/ simLoaded
  /\ \E idx \in 1..Len(plotWords) : PointClick(idx)

\* the suspended call h, when its load succeeds,
RankedByLoad(h) ==
  \E buf \in Buffers : VecFetched(h, buf) /\ LengthOk(buf, ExpectedLen(h))

\* and the run of variant 1 that plots (it calls showSimilar(kept[0]))
RankedByRun ==
  /\ variant = 1
  /\ status' = "plotted"
  /\ \E text \in Texts, in \in Inputs : RunClick(text, in)

\* the list the successful load of a suspended call appended
Appended == SubSeq(simList', Len(simList) + 1, Len(simList'))

\* cosineSimByIndex is called when word is ranked: the word has an index and
\* some other word of the pool has one
Computes(word) ==
  /\ word \in DOMAIN wordToIndex'
  /\ \E i \in 1..Len(currentWords') :
       currentWords'[i] # word /\ currentWords'[i] \in DOMAIN wordToIndex'

\* the step calls cosineSimByIndex from showSimilar
SimilarityComputed ==
  \/ (RankedByClick \/ RankedByRun) /\ Computes(selectedWord')
  \/ \E h \in BagToSet(clicks) : RankedByLoad(h) /\ Computes(h.word)

\* the buffer has SIM_D elements for every word of the index
BufferMatchesIndex(vec, index) ==
  Len(vec) = Cardinality(DOMAIN index) * SIM_D

\* ------------------------------------------------------------ claims
\* C1: whenever a similarity is computed from showSimilar, the embedding
\* buffer has |Vocabulary| x SIM_D elements for the vocabulary the
\* word-to-index map was built from, whatever runs, point selections and
\* successful or failed loads came before.
C1_BufferMatchesWhenComputed ==
  [][SimilarityComputed => BufferMatchesIndex(vecData', wordToIndex')]_vars

\* C2: an embedding load succeeds and marks the model ready if and only if
\* the fetched buffer has (length of the fetched vocabulary) x SIM_D elements;
\* with any other length it fails with an error and does not mark it ready.
C2_LoadSucceedsIffLengthMatches ==
  [][/\ \A h \in BagToSet(clicks), buf \in Buffers :
          VecFetched(h, buf) =>
            IF Len(buf) = Len(h.v) * SIM_D
            THEN simLoaded' /\ ~last'.escaped
            ELSE last'.escaped /\ simLoaded' = simLoaded
     /\ \A buf \in Buffers :
          InitVecFetched(buf) =>
            IF Len(buf) = Len(vocab) * SIM_D
            THEN initPc' = "done" /\ last' = NoError
            ELSE initPc' = "failed" /\ last'.alert = "init"]_vars

\* C3: a failed embedding load retains no partial state.  While no load has
\* succeeded and none is in progress, every attempt so far has failed, so the
\* word-to-index map and the buffer are what they were before the first
\* attempt (empty and null); in variant 1 the same after a failed init().
C3_FailedLoadKeepsNothing ==
  (IF variant = 1 THEN initPc = "failed"
   ELSE ~simLoaded /\ clicks = EmptyBag)
    => wordToIndex = EmptyMap /\ vecData = <<>>

\* the steps in which an ensure call for the tokenizer, the coordinates or
\* the embeddings ends in a failure
TokenizerLoadFailed ==
  \/ \E in \in Inputs : RunScriptLoaded(FALSE, in)
  \/ \E in \in Inputs : RunBuildDone("err", in) \/ RunBuildDone("timeout", in)

EmbeddingLoadFailed(h) ==
  \/ SimFetchFailed(h)
  \/ \E buf \in Buffers : VecFetched(h, buf) /\ ~LengthOk(buf, ExpectedLen(h))

\* an ensure call for the embeddings finds them unready and fetches
\* vocab.json: one more suspended call waits for it
EmbeddingLoadStarted ==
  \E h \in BagToSet(clicks') :
    h.pc = "vocab" /\ CopiesIn(h, clicks') = CopiesIn(h, clicks) + 1

\* ensureLibsAndTokenizer / ensureTokenizer, called now, would wait for a
\* script or for the tokenizer build
TokenizerLoadStarts ==
  \A text \in Texts \ {<<>>}, in \in Inputs :
    RunExec("ensureTokenizer", BeginRun(text), in).run.pc
      \in {"plotly", "kuromoji", "build"}

\* ensureCoords, called now, would wait for coords.csv
CoordsLoadStarts ==
  \A text \in Texts \ {<<>>}, in \in Inputs :
    RunExec("ensureCoords", BeginRun(text), in).run.pc = "coords"

\* C4, the restart: in every state in which no run is in progress and a
\* lazily loaded tokenizer or coordinate table is not loaded, the ensure call
\* of the next run starts its load
C4_Restart ==
  (variant # 1 /\ run.pc = "idle")
    => /\ (variant # 4 /\ ~tokenizer) => TokenizerLoadStarts
       /\ ~coordsLoaded => CoordsLoadStarts

\* C4, the failure: a failed ensure leaves its resource's flag false, and a
\* point selection that finds the embeddings unready starts their load
C4_Failure ==
  /\ TokenizerLoadFailed => ~tokenizer'
  /\ RunCoordsFailed => ~coordsLoaded'
  /\ \A h \in BagToSet(clicks) : EmbeddingLoadFailed(h) => ~simLoaded'
  /\ \A idx \in 1..Len(plotWords) :
       (variant # 1 /\ ~simLoaded /\ PointClick(idx)) => EmbeddingLoadStarted

\* C4: for each lazily loaded resource, an ensure call that ends in a failure
\* leaves the resource unloaded, never ready, and the next ensure call for it
\* starts the load again from scratch.
C4_FailedEnsureRestarts == [](C4_Restart) /\ [][C4_Failure]_vars

\* C5: an ensure call made while its resource is ready performs no fetch and
\* changes no state of the resource: with the tokenizer set no step waits
\* for a script or a build, with the coordinates loaded no step waits for
\* coords.csv, and a point selection with the model ready starts no load.
C5_ReadyEnsureIsNoOp ==
  [][/\ tokenizer =>
          /\ run'.pc \notin {"plotly", "kuromoji", "build"}
          /\ UNCHANGED << tokenizer, scriptTags, libs >>
     /\ coordsLoaded =>
          /\ run'.pc # "coords"
          /\ UNCHANGED << coordsLoaded, coordMap >>
     /\ \A idx \in 1..Len(plotWords) :
          (variant # 1 /\ simLoaded /\ PointClick(idx)) =>
            UNCHANGED << clicks, simLoaded, vocab, wordToIndex, vecData >>]_vars

\* every lazy resource is ready, and after that a run has plotted and a point
\* selection has ranked: all three ensure calls were made on a ready resource
C5_Witness ==
  /\ variant = 3
  /\ tokenizer /\ coordsLoaded /\ simLoaded
  /\ status = "plotted"
  /\ clicks = EmptyBag
  /\ simList # <<>>

\* C6: every readiness flag is monotonic: once the tokenizer is set, the
\* coordinates are loaded or the embedding model is loaded, it stays so in
\* every later state.
C6_FlagsMonotonic ==
  [][/\ tokenizer => tokenizer'
     /\ coordsLoaded => coordsLoaded'
     /\ simLoaded => simLoaded']_vars

\* all flags are set and the last step was a failed load
C6_Witness ==
  /\ tokenizer /\ coordsLoaded /\ simLoaded
  /\ last.escaped

\* C7: every word of the plotted word set is in the coordinate table and, as
\* soon as there is a vocabulary index (variant 1, or the model is loaded),
\* in the vocabulary index, so that selecting its point resolves to an index.
C7_PlottedWordsInBothTables ==
  \A i \in 1..Len(plotWords) :
    /\ plotWords[i] \in DOMAIN coordMap
    /\ (variant = 1 \/ simLoaded) => plotWords[i] \in DOMAIN wordToIndex

\* the run steps that can happen now without a load failing, each as the
\* pair of the words the run works on and the state run() leaves
RunsFromHere ==
  CASE run.pc = "idle" ->
         IF runDisabled THEN {}
         ELSE {<<WordsMemo[text][in], AfterClick(text, in)>> :
                 text \in Texts \ {<<>>}, in \in Inputs}
    [] run.pc \in {"plotly", "kuromoji"} ->
         {<<WordsMemo[run.text][in], AfterScript(in)>> : in \in Inputs}
    [] run.pc = "build" ->
         {<<WordsMemo[run.text][in], AfterBuild(in)>> : in \in Inputs}
    [] OTHER ->
         \* run.pc = "coords": variants 2 and 4 have tokenized already
         {<<IF variant = 3 THEN WordsMemo[run.text][in] ELSE run.words,
            AfterCoords(file, in)>> : file \in CoordsFiles, in \in Inputs}

\* the run has ended after it got to its filter (the tokenizer and the
\* coordinates are there), and fewer than 2 of its words survive the filter
FewSurvive(words, r) ==
  /\ r.run.pc = "idle"
  /\ r.tokenizer
  /\ variant = 1 \/ r.coordsLoaded
  /\ Len(PlotFilter(words, r.coordMap, variant = 1)) < 2

\* C8: a run in which fewer than 2 words survive the filter reports it in
\* the status text, throws nothing, renders no plot, leaves the plotted word
\* set as it was and ends with the run button enabled.  Stated of every run
\* step that can be taken from a reachable state.
C8_TooFewIsReported ==
  \A o \in RunsFromHere :
    FewSurvive(o[1], o[2]) =>
      /\ o[2].status = "tooFew"
      /\ o[2].last = NoError
      /\ o[2].plotWords = plotWords
      /\ o[2].currentWords = currentWords
      /\ ~o[2].runDisabled

\* a run reported too few words while the plot of an earlier run stays
C8_Witness ==
  /\ status = "tooFew"
  /\ ~runDisabled
  /\ run.pc = "idle"
  /\ Len(plotWords) >= 2

\* no entry of sims is the word itself or a word without an index
NoSelfNoStranger(word, sims) ==
  \A i \in 1..Len(sims) :
    sims[i].w # word /\ sims[i].w \in DOMAIN wordToIndex'

\* C9: the ranked list produced for a selected word never contains that word
\* (also when the plotted set repeats it) nor a word absent from the
\* vocabulary index.
C9_NoSelfNoStranger ==
  [][/\ (RankedByClick \/ RankedByRun) =>
          NoSelfNoStranger(selectedWord', simList')
     /\ \A h \in BagToSet(clicks) :
          RankedByLoad(h) => NoSelfNoStranger(h.word, Appended)]_vars

\* b was ranked against the plotted words b, c, a with an index that lacks
\* c: the list holds a alone
C9_Witness ==
  /\ variant # 1 /\ simLoaded
  /\ clicks = EmptyBag
  /\ currentWords = <<"b", "c", "a">>
  /\ selectedWord = "b"
  /\ "c" \notin DOMAIN wordToIndex
  /\ Len(simList) = 1 /\ simList[1].w = "a"

\* s1 >= s2 as numbers
ScoreGE(s1, s2) == ~s1.nan /\ ~s2.nan /\ ~ScoreGT(s2, s1)

\* sims is what ranking word must give: the first TopK of the stable
\* descending sort of the eligible candidates, scores non-increasing
IsRanking(word, sims) ==
  LET cands == Candidates(word, currentWords', wordToIndex', vecData')
  IN /\ Len(sims) = Min(TopK, Len(cands))
     /\ \A i \in 1..(Len(sims) - 1) : ScoreGE(sims[i].s, sims[i + 1].s)
     /\ sims = Take(StableSortDesc(cands), TopK)

\* C10: the ranked list produced for a selected word has min(10, eligible
\* candidates) entries, is sorted by non-increasing score with equal scores
\* in plotted-set order, and is the first 10 of the stable descending sort.
C10_RankingIsStableTopK ==
  [][/\ (RankedByClick \/ RankedByRun) =>
          (selectedWord' \in DOMAIN wordToIndex'
             => IsRanking(selectedWord', simList'))
     /\ \A h \in BagToSet(clicks) :
          RankedByLoad(h) =>
            (h.word \in DOMAIN wordToIndex' => IsRanking(h.word, Appended))]_vars

\* ------------------------------------------------------------ tokenizing
\* Sessions of variants 2 and 4 up to the tokenizing of the first run, with
\* any text of TokenTexts in the text box: the inputs of tokenizeText
TokenizeInit == Init /\ variant \in {2, 4}

TokenizeNext ==
  \/ InitTokenizerBuilt(TRUE)
  \/ \E text \in TokenTexts, in \in Inputs : RunClick(text, in)
  \/ \E in \in Inputs : RunScriptLoaded(TRUE, in)
  \/ \E in \in Inputs : RunBuildDone("ok", in)

TokenizeSpec == TokenizeInit /\ [][TokenizeNext]_vars

\* the vector at index i is in the buffer and all its components are 0
ZeroVector(vec, i) ==
  /\ InBuffer(vec, i * SIM_D)
  /\ \A k \in 1..SIM_D : vec[i * SIM_D + k] = 0

\* the score is the number 0
IsExactlyZero(s) == ~s.nan /\ s.dot = 0

\* the indices of the vocabulary
VocabIndices == {wordToIndex[w] : w \in DOMAIN wordToIndex}

\* C11: for all vocabulary indices i and j (i = j included), if the vector
\* at i or the vector at j is all-zero, the similarity of i and j is exactly
\* 0, never NaN.  Stated of the buffer and the index of every reachable state.
C11_ZeroVectorGivesZero ==
  \A i, j \in VocabIndices :
    (ZeroVector(vecData, i) \/ ZeroVector(vecData, j))
      => IsExactlyZero(Cosine(vecData, i, j))

\* the selected word has the zero vector and was ranked against other words
C11_Witness ==
  /\ selectedWord \in DOMAIN wordToIndex
  /\ ZeroVector(vecData, wordToIndex[selectedWord])
  /\ simList # <<>>
  /\ \A k \in 1..Len(simList) : IsExactlyZero(simList[k].s)

\* the position of the first occurrence of w in f
FirstAt(f, w) ==
  CHOOSE i \in 1..Len(f) : f[i] = w /\ \A j \in 1..(i - 1) : f[j] # w

\* u is f without the repetitions: no word twice, the same words, and the
\* k-th word of u is the word of f at a position that grows with k, the
\* position of its first occurrence
IsFirstOccurrences(u, f) ==
  /\ \A p, q \in 1..Len(u) : u[p] = u[q] => p = q
  /\ Range(u) = Range(f)
  /\ \A p, q \in 1..Len(u) : p < q => FirstAt(f, u[p]) < FirstAt(f, u[q])

\* C12: for the text of the text box and either setting of the POS filter,
\* the word list with uniqueOnly checked has no repeated word, has each word
\* at the place of its first occurrence, is a subsequence of the list with
\* uniqueOnly unchecked and has the same set of words.
C12_UniqueKeepsFirstOccurrences ==
  \A pf \in BOOLEAN :
    IsFirstOccurrences(RunWords(run.text, pf, TRUE), RunWords(run.text, pf, FALSE))

\* a run has tokenized with both boxes checked and waits for coords.csv; the
\* deduplication removed a word and left two
C12_Witness ==
  /\ run.pc = "coords"
  /\ run.words = RunWords(run.text, TRUE, TRUE)
  /\ Len(run.words) = 2
  /\ Len(RunWords(run.text, TRUE, FALSE)) = 3

\* the field is there, is not empty and is a finite number
IsFiniteField(parts, i) == i <= Len(parts) /\ parts[i] \in DOMAIN DigitVal

\* the words the claim gives the table for a file: the first fields of the
\* non-blank lines after the header (the first non-blank line) whose x and y
\* are both finite numbers; the empty string is no word
GoodWords(file) ==
  LET nb == NonBlankLines(file)
  IN {nb[i][1] : i \in {k \in 2..Len(nb) : /\ nb[k][1] # ""
                                           /\ IsFiniteField(nb[k], 2)
                                           /\ IsFiniteField(nb[k], 3)}}

\* C13: after a coordinate load the table has an entry for a word exactly
\* when a non-blank line after the header has the word as first field and
\* an x and a y that are present and finite; a row whose x or y is missing,
\* empty or not finite adds no entry, and the header adds none.
C13_TableIsTheGoodRows ==
  [][\A file \in CoordsFiles :
       (InitCoordsFetched(file) \/ \E in \in Inputs : RunCoordsFetched(file, in))
         => DOMAIN coordMap' = GoodWords(file)]_vars

\* C14: every failure raised while a run or a point selection is handled
\* (a load that fails, a length mismatch, a tokenizer failure) is caught by
\* the handler and surfaced as an error status plus an alert: no step ends
\* with an error that left its handler, and a step that alerted an error of
\* a handler left the error status.
C14_EveryFailureIsReported ==
  /\ ~last.escaped
  /\ last.alert = "error" => status = "error"

\* C15: the run button is never left disabled forever: whenever it is
\* disabled (during init(), during a run, after either has failed) it is
\* enabled again later.
C15_RunButtonComesBack == runDisabled ~> ~runDisabled

\* the deadline ends the wait for the build: the run ends with the error
\* reported, the tokenizer is unset, and the next run would build again
C16_Timeout ==
  BuildTimer =>
    /\ run'.pc = "idle"
    /\ last'.alert = "error" /\ status' = "error"
    /\ ~tokenizer'
    /\ TokenizerLoadStarts'

\* C16: tokenizer construction is bounded by a deadline.  A run that waits
\* for the build does not wait forever, whether or not the build callback
\* fires; when the deadline ends the wait, the run ends with an error, the
\* tokenizer stays unset and a later run builds again.
C16_DeadlineBoundsBuild ==
  /\ (run.pc = "build") ~> (run.pc # "build")
  /\ [][C16_Timeout]_vars

\* the handlers that have started and not ended: the run, if it is
\* suspended, and the suspended point selections
HandlersInProgress ==
  (IF run.pc # "idle" THEN 1 ELSE 0) + BagCardinality(clicks)

\* a run or a point-selection handler starts
HandlerStarts ==
  \/ \E text \in Texts, in \in Inputs : RunClick(text, in)
  \/ \E idx \in 1..Len(plotWords) : PointClick(idx)

\* C17: at most one run or point-selection handler is in progress at any
\* time; while one is suspended at a load no other starts; and the run button
\* is disabled for as long as a run is in progress.
C17_OneHandlerAtATime ==
  /\ [](HandlersInProgress <= 1)
  /\ [](run.pc # "idle" => runDisabled)
  /\ [][HandlersInProgress > 0 => ~HandlerStarts]_vars

\* C18: in every reachable state, also after several point selections made
\* while the embedding model is loading, the similarity list has at most 10
\* entries and every entry is a score computed against the word shown as
\* selected: a suspended showSimilar that gets to add entries adds them for
\* the word on display (the other steps that fill the list set that word).
C18_ListIsForSelectedWord ==
  /\ [](Len(simList) <= TopK)
  /\ [][\A h \in BagToSet(clicks) :
          (RankedByLoad(h) /\ Appended # <<>>) => h.word = selectedWord']_vars

\* init(), which the page calls as it loads, waits for the analyzer
\* dictionary (the tokenizer build), the vocabulary or the embedding buffer
PageLoadAwaitsLargeAsset == initPc \in {"tokenizer", "vocab", "vec"}

\* a step of run(): the click or the end of one of its waits
RunHandlerStep ==
  \/ \E text \in Texts, in \in Inputs : RunClick(text, in)
  \/ \E ok \in BOOLEAN, in \in Inputs : RunScriptLoaded(ok, in)

\* C19: the page load does not load the large assets.  init() never waits
\* for the dictionary, the vocabulary or the buffer; a tokenizer build is
\* started only by a step of run(), and a fetch of the vocabulary only by a
\* point selection.
C19_NoLargeAssetAtPageLoad ==
  /\ [](~PageLoadAwaitsLargeAsset)
  /\ [][/\ (run.pc # "build" /\ run'.pc = "build") => RunHandlerStep
        /\ EmbeddingLoadStarted => \E idx \in 1..Len(plotWords) : PointClick(idx)
     ]_vars

\* the run steps that can happen now, those in which a load fails included
RunEndings ==
  RunsFromHere
    \cup (IF run.pc = "idle" THEN {} ELSE {<<run.words, Fail(RunState)>>})

\* C20: the plotted word set is replaced as a whole and only by a run that
\* plots.  A run step that renders a plot leaves exactly that run's filtered
\* word list, as the words of the plot and as currentWords; a run step that
\* ends the run otherwise (too few words, a failure) leaves both as they
\* were.  Stated of every run step that can be taken from a reachable state.
C20_PlottedSetReplacedAsAWhole ==
  \A o \in RunEndings :
    o[2].run.pc = "idle" =>
      IF Plotted(o[2])
      THEN LET kept == PlotFilter(o[1], o[2].coordMap, variant = 1)
           IN o[2].currentWords = kept /\ o[2].plotWords = kept
      ELSE o[2].currentWords = currentWords /\ o[2].plotWords = plotWords

\* the coordinate load has completed: init() got past loadCoords in variant
\* 1, the flag of ensureCoords is set in the others
CoordsReady == IF variant = 1 THEN initPc = "done" ELSE coordsLoaded

\* C21: a run never tokenizes with an unready tokenizer and never filters
\* against an unloaded coordinate table, also after a failed init() or a
\* failed earlier load.  No run has ended at its call of the tokenizer (the
\* status it sets just before); a run that has tokenized and waits for the
\* coordinates has a tokenizer; and once a run has got through its filter
\* (it reported too few words or plotted) the tokenizer is set and the
\* coordinates are loaded.
C21_RunUsesReadyResources ==
  /\ ~(run.pc = "idle" /\ status = "tokenizing")
  /\ (run.pc = "coords" /\ variant \in {2, 4}) => tokenizer
  /\ status \in {"tooFew", "plotted"} => tokenizer /\ CoordsReady

\* an earlier run failed to load Plotly (its script element is there, the
\* library is not); the run in progress has tokenized and waits for the
\* coordinates
C21_Witness ==
  /\ "plotly" \in scriptTags \ libs
  /\ run.pc = "coords"
  /\ run.words # <<>>
  /\ tokenizer /\ ~coordsLoaded

\* the fetches in flight for the embeddings (one per suspended call of
\* ensureSimModel) and for the coordinates
EmbeddingLoadsInFlight == BagCardinality(clicks)

CoordsLoadsInFlight ==
  IF run.pc = "coords" \/ initPc = "coords" THEN 1 ELSE 0

\* C22: for each resource at most one load is in flight at a time.  An
\* ensure call made while an earlier one for the same resource waits for its
\* fetch starts no second fetch; so once a load has succeeded the asset was
\* fetched once: no fetch starts after that.
C22_OneLoadInFlight ==
  /\ [](EmbeddingLoadsInFlight <= 1 /\ CoordsLoadsInFlight <= 1)
  /\ [][/\ EmbeddingLoadStarted => clicks = EmptyBag /\ ~simLoaded
        /\ (run.pc # "coords" /\ run'.pc = "coords") => ~coordsLoaded]_vars

\* showSimilar(word) gets to its ranking (the word has an index) with word
\* among the words the candidates are taken from
RanksAMember(word) ==
  word \in DOMAIN wordToIndex' => word \in Range(currentWords')

\* C23: whenever a ranking is computed for a selected word, the word is a
\* member of the plotted word set the candidates are taken from: a point
\* selection suspended on the embedding load while a run replaces the set
\* never ranks the old word against the new words, and the index of a
\* selection is resolved against the words of the plot that was clicked.
C23_RankedWordIsPlotted ==
  [][/\ (RankedByClick \/ RankedByRun) => RanksAMember(selectedWord')
     /\ \A h \in BagToSet(clicks) : RankedByLoad(h) => RanksAMember(h.word)
     /\ \A idx \in 1..Len(plotWords) :
          PointClick(idx) => selectedWord' = plotWords[idx]]_vars

====
